---- MODULE Spec2Model ----
(***************************************************************************)
(* A model of app.py, the Streamlit page "GKIN Den Haag Liturgi            *)
(* Exploration": one script run (render) per user interaction, which      *)
(* loads the liturgy table (cached), enriches it with liturgy_month,      *)
(* renders the dashboard and, on "Ask AI", builds the prompt, calls the   *)
(* chat model, stores the answer in the session, inserts a history row    *)
(* and reads the history back.                                            *)
(*                                                                         *)
(* Text is modelled as a run-length encoded character string: a sequence  *)
(* of runs [c |-> character, n |-> repetitions], n > 0, adjacent runs     *)
(* holding different characters.  Two texts are the same Python str iff   *)
(* their encodings are equal, len() is the sum of the run lengths and     *)
(* s[:k] cuts inside a run, so the 80000 and 65000 character limits keep  *)
(* their real values.                                                      *)
(***************************************************************************)
EXTENDS Integers, Sequences, FiniteSets, TLC

\* ------------------------------------------------------------------ bounds
\* Script runs (renders) of one browser session that the model follows.
MaxRenders == 2
\* "Ask AI" clicks of one browser session that the model follows.
MaxAsks == 1

\* --------------------------------------------------------------- constants
MAX_CSV_CHARS == 80000
max_len == 65000
history_limit == 30

Min(a, b) == IF a <= b THEN a ELSE b

\* ------------------------------------------------------------ Python str
\* Appending one character to an encoded text.
AppendChar(t, ch) ==
    IF Len(t) > 0 /\ t[Len(t)].c = ch
    THEN [t EXCEPT ![Len(t)].n = @ + 1]
    ELSE Append(t, [c |-> ch, n |-> 1])

\* a + b (also what an f-string does with adjacent pieces)
Cat(a, b) ==
    IF a = <<>> THEN b
    ELSE IF b = <<>> THEN a
    ELSE IF a[Len(a)].c = b[1].c
         THEN SubSeq(a, 1, Len(a) - 1)
              \o <<[c |-> b[1].c, n |-> a[Len(a)].n + b[1].n]>>
              \o SubSeq(b, 2, Len(b))
         ELSE a \o b

\* A str literal, given as the tuple of its characters.
RECURSIVE StrRange(_, _, _)
StrRange(chars, lo, hi) ==
    IF lo > hi THEN <<>>
    ELSE IF lo = hi THEN <<[c |-> chars[lo], n |-> 1]>>
    ELSE LET mid == (lo + hi) \div 2
         IN  Cat(StrRange(chars, lo, mid), StrRange(chars, mid + 1, hi))

Str(chars) == StrRange(chars, 1, Len(chars))

\* ch * n
Repeat(ch, n) == IF n <= 0 THEN <<>> ELSE <<[c |-> ch, n |-> n]>>

\* The characters of runs lo..hi of t.
RECURSIVE SumRuns(_, _, _)
SumRuns(t, lo, hi) ==
    IF lo > hi THEN 0
    ELSE IF lo = hi THEN t[lo].n
    ELSE LET mid == (lo + hi) \div 2
         IN  SumRuns(t, lo, mid) + SumRuns(t, mid + 1, hi)

\* len(t)
Length(t) == SumRuns(t, 1, Len(t))

\* The first k characters of runs lo..hi of t.
RECURSIVE TakeRuns(_, _, _, _)
TakeRuns(t, lo, hi, k) ==
    IF k <= 0 \/ lo > hi THEN <<>>
    ELSE IF lo = hi THEN <<[c |-> t[lo].c, n |-> Min(k, t[lo].n)]>>
    ELSE LET mid  == (lo + hi) \div 2
             left == SumRuns(t, lo, mid)
         IN  IF k <= left
             THEN TakeRuns(t, lo, mid, k)
             ELSE SubSeq(t, lo, mid) \o TakeRuns(t, mid + 1, hi, k - left)

\* t[:k], k >= 0
Take(t, k) == TakeRuns(t, 1, Len(t), k)

\* Runs lo..hi of t without their first k characters.
RECURSIVE DropRuns(_, _, _, _)
DropRuns(t, lo, hi, k) ==
    IF lo > hi THEN <<>>
    ELSE IF k <= 0 THEN SubSeq(t, lo, hi)
    ELSE IF lo = hi
         THEN IF k >= t[lo].n THEN <<>>
              ELSE <<[c |-> t[lo].c, n |-> t[lo].n - k]>>
    ELSE LET mid  == (lo + hi) \div 2
             left == SumRuns(t, lo, mid)
         IN  IF k >= left
             THEN DropRuns(t, mid + 1, hi, k - left)
             ELSE DropRuns(t, lo, mid, k) \o SubSeq(t, mid + 1, hi)

\* t[k:], k >= 0
Drop(t, k) == DropRuns(t, 1, Len(t), k)

\* t[i:j], 0 <= i <= j
Slice(t, i, j) == Take(Drop(t, i), j - i)

Whitespace == {" ", "\n", "\t", "\r"}

\* t.strip(): leading and trailing whitespace runs removed
RECURSIVE LStrip(_)
LStrip(t) ==
    IF t # <<>> /\ t[1].c \in Whitespace THEN LStrip(Tail(t)) ELSE t

RECURSIVE RStrip(_)
RStrip(t) ==
    IF t # <<>> /\ t[Len(t)].c \in Whitespace
    THEN RStrip(SubSeq(t, 1, Len(t) - 1))
    ELSE t

Strip(t) == RStrip(LStrip(t))

DigitChars == <<"0", "1", "2", "3", "4", "5", "6", "7", "8", "9">>

\* str(n) / f"{n}" of an int n >= 0
RECURSIVE Digits(_)
Digits(n) ==
    IF n < 10 THEN Str(<<DigitChars[n + 1]>>)
    ELSE AppendChar(Digits(n \div 10), DigitChars[(n % 10) + 1])

\* f"{n:0{w}d}": n in at least w digits, zero padded
ZeroPad(n, w) ==
    LET d == Digits(n) IN Cat(Repeat("0", w - Length(d)), d)

\* "".join(parts[lo..hi]) for a sequence of texts
RECURSIVE JoinRange(_, _, _)
JoinRange(parts, lo, hi) ==
    IF lo > hi THEN <<>>
    ELSE IF lo = hi THEN parts[lo]
    ELSE LET mid == (lo + hi) \div 2
         IN  Cat(JoinRange(parts, lo, mid), JoinRange(parts, mid + 1, hi))

Join(parts) == JoinRange(parts, 1, Len(parts))

\* ------------------------------------------------------------ str literals
\* The grave accent U+0060, a character that a TLA+ string cannot hold.
BQ == "grave"

SOURCE_TABLE ==
    Str(<<"l", "i", "t", "u", "r", "g", "i", ".", BQ, "0", "1", "_", "c", "u",
          "r", "a", "t", "e", "d", BQ, ".", "p", "d", "f", "_", "l", "i", "t",
          "u", "r", "g", "i", "_", "a", "i", "_", "a", "n", "a", "l", "y", "s",
          "i", "s">>)

Unknown == Str(<<"U", "n", "k", "n", "o", "w", "n">>)

\* str(pd.NaT), which is what Series.astype(str) writes for a missing period
NaTStr == Str(<<"N", "a", "T">>)

\* The name of a column as text (the header cell to_csv writes).
ColumnName(col) ==
    CASE col = "liturgy_date" ->
           Str(<<"l", "i", "t", "u", "r", "g", "y", "_", "d", "a", "t", "e">>)
      [] col = "liturgy_date_parsed" ->
           Str(<<"l", "i", "t", "u", "r", "g", "y", "_", "d", "a", "t", "e", "_",
                 "p", "a", "r", "s", "e", "d">>)
      [] col = "liturgy_month" ->
           Str(<<"l", "i", "t", "u", "r", "g", "y", "_", "m", "o", "n", "t", "h">>)
      [] col = "text" -> Str(<<"t", "e", "x", "t">>)

\* ------------------------------------------------------------------ dates
\* A liturgy_date cell as the warehouse returns it: NULL (None) or a string,
\* given as the tuple of its characters.
NullCell == [null |-> TRUE, s |-> <<>>]
StrCell(chars) == [null |-> FALSE, s |-> chars]

\* pd.NaT
NaT == [nat |-> TRUE, y |-> 0, m |-> 0, d |-> 0]

IsDigit(ch) == \E i \in 1..10 : DigitChars[i] = ch
DigitVal(ch) == (CHOOSE i \in 1..10 : DigitChars[i] = ch) - 1

\* int(chars[lo..hi]) for decimal digits
RECURSIVE Number(_, _, _)
Number(chars, lo, hi) ==
    IF lo > hi THEN 0
    ELSE Number(chars, lo, hi - 1) * 10 + DigitVal(chars[hi])

IsLeap(y) == (y % 4 = 0 /\ y % 100 # 0) \/ y % 400 = 0

DaysInMonth(y, m) ==
    IF m = 2 THEN (IF IsLeap(y) THEN 29 ELSE 28)
    ELSE IF m \in {4, 6, 9, 11} THEN 30 ELSE 31

\* pd.to_datetime(cell, errors="coerce") for the cells the model draws: None,
\* ISO "YYYY-MM-DD" strings (valid or not as calendar dates) and strings that
\* are no date.  Whatever does not parse is coerced to NaT, never raised.
ToDatetime(cell) ==
    IF cell.null THEN NaT
    ELSE LET s == cell.s
         IN  IF /\ Len(s) = 10
                /\ \A i \in {1, 2, 3, 4, 6, 7, 9, 10} : IsDigit(s[i])
                /\ s[5] = "-"
                /\ s[8] = "-"
             THEN LET y == Number(s, 1, 4)
                      m == Number(s, 6, 7)
                      d == Number(s, 9, 10)
                  IN  IF m \in 1..12 /\ d \in 1..DaysInMonth(y, m)
                      THEN [nat |-> FALSE, y |-> y, m |-> m, d |-> d]
                      ELSE NaT
             ELSE NaT

\* Series.dt.to_period("M").astype(str) for one value: "YYYY-MM", and the
\* missing period NaT is written "NaT".
PeriodMonthStr(ts) ==
    IF ts.nat THEN NaTStr
    ELSE Cat(ZeroPad(ts.y, 4), Cat(Str(<<"-">>), ZeroPad(ts.m, 2)))

\* A datetime64 cell as to_csv writes it: "YYYY-MM-DD", NaT as the empty field.
DatetimeCsv(ts) ==
    IF ts.nat THEN <<>>
    ELSE Join(<<ZeroPad(ts.y, 4), Str(<<"-">>), ZeroPad(ts.m, 2),
                Str(<<"-">>), ZeroPad(ts.d, 2)>>)

\* ---------------------------------------------------------------- DataFrame
\* A DataFrame: its column names in order and its rows, each a record with
\* one field per column.
HasColumn(df, col) == \E i \in 1..Len(df.columns) : df.columns[i] = col

\* len(df)
NRows(df) == Len(df.rows)

\* Lines 202-211: the enriched copy of the loaded frame.
Enrich(df) ==
    IF HasColumn(df, "liturgy_date")
    THEN [columns |-> df.columns \o <<"liturgy_date_parsed", "liturgy_month">>,
          rows    |-> [i \in 1..Len(df.rows) |->
                         LET ts == ToDatetime(df.rows[i].liturgy_date)
                         IN  [liturgy_date        |-> df.rows[i].liturgy_date,
                              text                |-> df.rows[i].text,
                              liturgy_date_parsed |-> ts,
                              liturgy_month       |-> PeriodMonthStr(ts)]]]
    ELSE [columns |-> df.columns \o <<"liturgy_month">>,
          rows    |-> [i \in 1..Len(df.rows) |->
                         [text          |-> df.rows[i].text,
                          liturgy_month |-> Unknown]]]

\* df.head(n), n >= 0
DfHead(df, n) ==
    [columns |-> df.columns, rows |-> SubSeq(df.rows, 1, Min(n, Len(df.rows)))]

\* One cell as to_csv writes it (no cell of the model needs quoting).
CellCsv(row, col) ==
    CASE col = "liturgy_date" ->
           (IF row.liturgy_date.null THEN <<>> ELSE Str(row.liturgy_date.s))
      [] col = "liturgy_date_parsed" -> DatetimeCsv(row.liturgy_date_parsed)
      [] col = "liturgy_month" -> row.liturgy_month
      [] col = "text" -> row.text

\* cells[1] "," cells[2] "," ... "\n"
CsvLine(cells) ==
    Cat(Join([i \in 1..Len(cells) |->
                IF i = 1 THEN cells[i] ELSE Cat(Str(<<",">>), cells[i])]),
        Str(<<"\n">>))

\* df.to_csv(index=False): the header line, then one line per row.
ToCsv(df) ==
    Cat(CsvLine([j \in 1..Len(df.columns) |-> ColumnName(df.columns[j])]),
        Join([i \in 1..Len(df.rows) |->
                CsvLine([j \in 1..Len(df.columns) |->
                           CellCsv(df.rows[i], df.columns[j])])]))

\* df.groupby("liturgy_month").size(): month -> number of rows (lines 230-235;
\* the order of the rows of the result is not modelled).
MonthCounts(df) ==
    LET months == {df.rows[i].liturgy_month : i \in 1..Len(df.rows)}
    IN  [m \in months |->
           Cardinality({i \in 1..Len(df.rows) : df.rows[i].liturgy_month = m})]

\* ------------------------------------------------------- inputs of the model
\* One row of the source table: a liturgy_date cell and one text column.
DatedRow(cell, body) == [liturgy_date |-> cell, text |-> body]

\* The contents the source table can have (fixed during one behaviour):
\* no rows; the three services of January and February 2024; five long rows
\* whose dates are valid, NULL, no date, month 13 and 29 February 2023;
\* twelve and 520 rows of a table that has no liturgy_date column.
SourceTables ==
    { [columns |-> <<"liturgy_date", "text">>, rows |-> <<>>],
      [columns |-> <<"liturgy_date", "text">>,
       rows |-> << DatedRow(StrCell(<<"2", "0", "2", "4", "-", "0", "1", "-", "0", "7">>),
                            Repeat("a", 20)),
                   DatedRow(StrCell(<<"2", "0", "2", "4", "-", "0", "1", "-", "1", "4">>),
                            Repeat("b", 21)),
                   DatedRow(StrCell(<<"2", "0", "2", "4", "-", "0", "2", "-", "0", "4">>),
                            Repeat("c", 22)) >>],
      [columns |-> <<"liturgy_date", "text">>,
       rows |-> << DatedRow(StrCell(<<"2", "0", "2", "4", "-", "1", "2", "-", "2", "5">>),
                            Repeat("a", 30000)),
                   DatedRow(NullCell, Repeat("b", 30001)),
                   DatedRow(StrCell(<<"P", "a", "s", "k", "a", "h">>),
                            Repeat("c", 30002)),
                   DatedRow(StrCell(<<"2", "0", "2", "4", "-", "1", "3", "-", "0", "1">>),
                            Repeat("d", 30003)),
                   DatedRow(StrCell(<<"2", "0", "2", "3", "-", "0", "2", "-", "2", "9">>),
                            Repeat("e", 30004)) >>],
      [columns |-> <<"text">>,
       rows |-> [i \in 1..12 |-> [text |-> Repeat("a", 30 + i)]]],
      [columns |-> <<"text">>,
       rows |-> [i \in 1..520 |->
                   [text |-> Repeat(IF i % 2 = 1 THEN "a" ELSE "b",
                                    400 + (i % 3))]]] }

\* What the user can have typed into "Pertanyaan / Instruksi ke AI": a short
\* instruction, or one longer than the stored length of save_history.
Instructions ==
    { Str(<<"R", "i", "n", "g", "k", "a", "s", " ", "p", "o", "l", "a">>),
      Repeat("q", 70000) }

\* The text the chat model can answer with: nothing, a short answer, or one
\* longer than the stored length of save_history.
AnswerTexts ==
    { <<>>, Str(<<"B", "a", "i", "k", ".">>), Repeat("z", 70000) }

\* What line 145-159 can meet: a response whose output[0].content[0].text is
\* a text, a response without that field, or an error raised by the call.
ApiOutcomes ==
    { [kind |-> "text", text |-> t] : t \in AnswerTexts }
    \cup { [kind |-> "malformed", text |-> <<>>],
           [kind |-> "error", text |-> <<>>] }

NoOutcome == [kind |-> "none", text |-> <<>>]

\* The slider positions the model lets the user try to pick (510 is beyond
\* every slider and never accepted).
LimitInputs == {1, 3, 10, 500, 510}

\* ------------------------------------------------- the steps of the script
\* Lines 261-268: the bounds and the step of the slider.
SliderBounds(n_rows) ==
    IF n_rows < 10
    THEN [min |-> 1, max |-> n_rows, step |-> 1]
    ELSE [min |-> 10, max |-> Min(500, n_rows), step |-> 10]

\* DefaultVal without the fallback of lines 272-273.
DefaultValUnchecked(last_limit_rows, b) == last_limit_rows

\* Lines 271-273: the default position of the slider.
DefaultVal(last_limit_rows, b) ==
    IF last_limit_rows < b.min \/ last_limit_rows > b.max
    THEN b.min
    ELSE last_limit_rows

\* The positions st.slider can return: min, min + step, ... up to max.
SliderValues(b) == {v \in b.min..b.max : (v - b.min) % b.step = 0}

\* Truncate cutting from the wrong end: text[-MAX_CSV_CHARS:].
TruncateTail(text) ==
    IF Length(text) > MAX_CSV_CHARS
    THEN Drop(text, Length(text) - MAX_CSV_CHARS)
    ELSE text

\* Lines 306-313: the excerpt of the CSV text that goes into the prompt.
Truncate(text) ==
    IF Length(text) > MAX_CSV_CHARS
    THEN Take(text, MAX_CSV_CHARS)
    ELSE text

\* WarningMessage reporting the length after the cut instead of before it.
WarningMessageAfterCut(text) ==
    Join(<< Str(<<"C", "S", "V", " ", "p", "a", "n", "j", "a", "n", "g", "n",
                  "y", "a", " ">>),
            Digits(Length(Take(text, MAX_CSV_CHARS))),
            Str(<<" ", "k", "a", "r", "a", "k", "t", "e", "r", ".", " ", "H",
                  "a", "n", "y", "a", " ">>),
            Digits(MAX_CSV_CHARS),
            Str(<<" ", "k", "a", "r", "a", "k", "t", "e", "r", " ", "p", "e",
                  "r", "t", "a", "m", "a", " ", "y", "a", "n", "g", " ", "d",
                  "i", "k", "i", "r", "i", "m", " ", "k", "e", " ", "m", "o",
                  "d", "e", "l", ".">>) >>)

\* Lines 308-311: the message of st.warning.
WarningMessage(text) ==
    Join(<< Str(<<"C", "S", "V", " ", "p", "a", "n", "j", "a", "n", "g", "n",
                  "y", "a", " ">>),
            Digits(Length(text)),
            Str(<<" ", "k", "a", "r", "a", "k", "t", "e", "r", ".", " ", "H",
                  "a", "n", "y", "a", " ">>),
            Digits(MAX_CSV_CHARS),
            Str(<<" ", "k", "a", "r", "a", "k", "t", "e", "r", " ", "p", "e",
                  "r", "t", "a", "m", "a", " ", "y", "a", "n", "g", " ", "d",
                  "i", "k", "i", "r", "i", "m", " ", "k", "e", " ", "m", "o",
                  "d", "e", "l", ".">>) >>)

\* Lines 306-311: the warnings of the ask block, as elements of the page.
TruncationWarnings(text) ==
    IF Length(text) > MAX_CSV_CHARS
    THEN << [kind |-> "warning", label |-> "truncated",
             value |-> WarningMessage(text)] >>
    ELSE <<>>

\* The template of lines 315-327 up to the instruction, for a row limit.
PromptHead(limit_rows) ==
    Join(<< Str(<<"\n", "B", "e", "r", "i", "k", "u", "t", " ", "a", "d", "a",
                  "l", "a", "h", " ", "d", "a", "t", "a", " ", "l", "i", "t",
                  "u", "r", "g", "i", " ", "d", "a", "r", "i", " ", "t", "a",
                  "b", "e", "l", " ">>),
            SOURCE_TABLE,
            Str(<<"\n", "(", "d", "i", "b", "a", "t", "a", "s", "i", " ">>),
            Digits(limit_rows),
            Str(<<" ", "b", "a", "r", "i", "s", " ", "p", "e", "r", "t", "a",
                  "m", "a", ")", " ", "d", "a", "l", "a", "m", " ", "f", "o",
                  "r", "m", "a", "t", " ", "C", "S", "V", "\n", "(", "d", "i",
                  "p", "o", "t", "o", "n", "g", " ", "b", "i", "l", "a", " ",
                  "t", "e", "r", "l", "a", "l", "u", " ", "p", "a", "n", "j",
                  "a", "n", "g", ")", ".", "\n", "\n", "I", "N", "S", "T", "R",
                  "U", "K", "S", "I", " ", "S", "A", "Y", "A", ":", "\n">>) >>)

\* The template between the instruction and the excerpt: the opening fence.
PromptFence ==
    Str(<<"\n", "\n", "D", "A", "T", "A", " ", "C", "S", "V", ":", "\n",
          BQ, BQ, BQ, "c", "s", "v", "\n">>)

\* The template after the excerpt: the closing fence.
PromptTail == Str(<<"\n", BQ, BQ, BQ, "\n">>)

\* Lines 315-327: the f-string, stripped.
ComposePrompt(limit_rows, instruction, excerpt) ==
    Strip(Join(<< PromptHead(limit_rows), instruction, PromptFence, excerpt,
                  PromptTail >>))

\* Lines 141-159, for what client.responses.create does: the text of the
\* response, or the exception that leaves ask_chatgpt (nothing is caught).
ask_chatgpt(outcome) ==
    CASE outcome.kind = "text" ->
           [raised |-> "none", value |-> outcome.text]
      [] outcome.kind = "malformed" ->
           [raised |-> "IndexError", value |-> <<>>]
      [] outcome.kind = "error" ->
           [raised |-> "APIError", value |-> <<>>]

\* HistoryRow storing the answer as it came, without answer[:max_len].
HistoryRowUncut(table, limit_rows, instruction, prompt, answer_text, model_name) ==
    [id               |-> Len(table) + 1,
     asked_at         |-> Len(table) + 1,
     source_table     |-> SOURCE_TABLE,
     limit_rows       |-> limit_rows,
     user_instruction |-> instruction,
     prompt_sent      |-> Take(prompt, max_len),
     answer           |-> answer_text,
     model            |-> model_name]

\* Lines 75-112: the row that save_history inserts; id and asked_at are
\* assigned by the table (identity column, current_timestamp()).
HistoryRow(table, limit_rows, instruction, prompt, answer_text, model_name) ==
    [id               |-> Len(table) + 1,
     asked_at         |-> Len(table) + 1,
     source_table     |-> SOURCE_TABLE,
     limit_rows       |-> limit_rows,
     user_instruction |-> instruction,
     prompt_sent      |-> Take(prompt, max_len),
     answer           |-> Take(answer_text, max_len),
     model            |-> model_name]

\* Lines 115-135: the newest limit_rows rows, newest first, six columns.
load_history(table, limit_rows) ==
    [i \in 1..Min(limit_rows, Len(table)) |->
       LET r == table[Len(table) + 1 - i]
       IN  [id               |-> r.id,
            asked_at         |-> r.asked_at,
            limit_rows       |-> r.limit_rows,
            user_instruction |-> r.user_instruction,
            answer           |-> r.answer,
            model            |-> r.model]]

\* Lines 367-374: the rows shown, with answer_preview = answer[:120] + "...".
HistoryDisplay(df_history) ==
    [i \in 1..Len(df_history) |->
       [id               |-> df_history[i].id,
        asked_at         |-> df_history[i].asked_at,
        limit_rows       |-> df_history[i].limit_rows,
        user_instruction |-> df_history[i].user_instruction,
        answer_preview   |-> Cat(Take(df_history[i].answer, 120),
                                 Str(<<".", ".", ".">>)),
        model            |-> df_history[i].model]]

\* One element written to the page.
Element(kind, label, value) == [kind |-> kind, label |-> label, value |-> value]

\* ------------------------------------------------------------------ state
VARIABLES
    source,               \* the rows of SOURCE_TABLE in the warehouse
    cache,                \* st.cache_data of load_liturgi_cached
    session_state,        \* st.session_state
    history_table,        \* the rows of HISTORY_TABLE in the warehouse
    pc,                   \* where the current script run is
    renders,              \* script runs started
    asks,                 \* script runs started by "Ask AI"
    df_liturgi,           \* line 199
    df_liturgi_enriched,  \* lines 202-211
    slider,               \* slider_min, slider_max, step, default_val
    limit_rows_for_ai,    \* line 275
    user_instruction,     \* line 294
    ask_clicked,          \* line 300
    csv_text,             \* line 305
    csv_text_short,       \* lines 307, 313
    full_prompt,          \* line 315
    resp,                 \* what client.responses.create met in this run
    answer,               \* line 330
    ui,                   \* the elements this run has written to the page
    steps                 \* the steps this run has taken, in order

world  == <<source, cache, session_state, history_table>>
frame  == <<df_liturgi, df_liturgi_enriched>>
inputs == <<slider, limit_rows_for_ai, user_instruction, ask_clicked>>
ask    == <<csv_text, csv_text_short, full_prompt, resp, answer>>
vars   == <<world, pc, renders, asks, frame, inputs, ask, ui, steps>>

NoFrame  == [columns |-> <<>>, rows |-> <<>>]
NoSlider == [min |-> 0, max |-> 0, step |-> 0, default |-> 0]

Init ==
    /\ source \in SourceTables
    /\ cache = [loaded |-> FALSE, df |-> NoFrame]
    /\ session_state = [k \in {} |-> 0]
    /\ history_table = <<>>
    /\ pc = "idle"
    /\ renders = 0
    /\ asks = 0
    /\ df_liturgi = NoFrame
    /\ df_liturgi_enriched = NoFrame
    /\ slider = NoSlider
    /\ limit_rows_for_ai = 0
    /\ user_instruction = <<>>
    /\ ask_clicked = FALSE
    /\ csv_text = <<>>
    /\ csv_text_short = <<>>
    /\ full_prompt = <<>>
    /\ resp = NoOutcome
    /\ answer = <<>>
    /\ ui = <<>>
    /\ steps = <<>>

\* Lines 185-188: the defaults of the session, set where a key is missing.
InitSession(ss) ==
    LET s1 == IF "last_answer" \in DOMAIN ss
              THEN ss ELSE ss @@ ("last_answer" :> <<>>)
    IN  IF "last_limit_rows" \in DOMAIN s1
        THEN s1 ELSE s1 @@ ("last_limit_rows" :> 10)

\* A script run starts (first load of the page, or a widget was used) and
\* runs lines 166-188: page config, title, session defaults.
StartRender ==
    /\ pc \in {"idle", "done", "aborted"}
    /\ renders < MaxRenders
    /\ renders' = renders + 1
    /\ session_state' = InitSession(session_state)
    /\ ui' = <<Element("title", "GKIN Den Haag Liturgi Exploration", <<>>)>>
    /\ steps' = <<>>
    /\ df_liturgi' = NoFrame
    /\ df_liturgi_enriched' = NoFrame
    /\ slider' = NoSlider
    /\ limit_rows_for_ai' = 0
    /\ user_instruction' = <<>>
    /\ ask_clicked' = FALSE
    /\ csv_text' = <<>>
    /\ csv_text_short' = <<>>
    /\ full_prompt' = <<>>
    /\ resp' = NoOutcome
    /\ answer' = <<>>
    /\ pc' = "load"
    /\ UNCHANGED <<source, cache, history_table, asks>>

\* Line 199 with a cached value: load_liturgi is not called.
LoadCached ==
    /\ pc = "load"
    /\ cache.loaded
    /\ df_liturgi' = cache.df
    /\ pc' = "enrich"
    /\ UNCHANGED <<world, renders, asks, df_liturgi_enriched, inputs, ask, ui,
                   steps>>

\* Line 199 without a cached value: load_liturgi (lines 46-59) runs its
\* query; the result is cached, an exception is not.
LoadOk ==
    /\ pc = "load"
    /\ ~cache.loaded
    /\ df_liturgi' = source
    /\ cache' = [loaded |-> TRUE, df |-> source]
    /\ steps' = steps \o <<"load", "loaded">>
    /\ pc' = "enrich"
    /\ UNCHANGED <<source, session_state, history_table, renders, asks,
                   df_liturgi_enriched, inputs, ask, ui>>

\* LoadFail with the exception swallowed: the run goes on with an empty frame.
LoadFailSwallowed ==
    /\ pc = "load"
    /\ ~cache.loaded
    /\ steps' = steps \o <<"load", "load_failed">>
    /\ df_liturgi' = [columns |-> <<"text">>, rows |-> <<>>]
    /\ pc' = "enrich"
    /\ UNCHANGED <<world, renders, asks, df_liturgi_enriched, inputs, ask, ui>>

\* Line 199 when the warehouse cannot be reached: the exception of
\* load_liturgi leaves the script, which ends the run there.
LoadFail ==
    /\ pc = "load"
    /\ ~cache.loaded
    /\ steps' = steps \o <<"load", "load_failed">>
    /\ ui' = Append(ui, Element("exception", "load_liturgi", <<>>))
    /\ pc' = "aborted"
    /\ UNCHANGED <<world, renders, asks, frame, inputs, ask>>

\* Lines 202-211.
EnrichFrame ==
    /\ pc = "enrich"
    /\ df_liturgi_enriched' = Enrich(df_liturgi)
    /\ steps' = Append(steps, "enrich")
    /\ pc' = "dashboard"
    /\ UNCHANGED <<world, renders, asks, df_liturgi, inputs, ask, ui>>

\* Lines 216-249: the metric, the chart of rows per month, the table.
Dashboard ==
    /\ pc = "dashboard"
    /\ LET month_counts == MonthCounts(df_liturgi_enriched)
       IN  ui' = ui \o
                 << Element("metric", "Jumlah Liturgi di Database",
                            NRows(df_liturgi_enriched)),
                    IF DOMAIN month_counts # {}
                    THEN Element("bar_chart", "Jumlah liturgi per bulan",
                                 month_counts)
                    ELSE Element("info", "no_month_data", <<>>),
                    Element("dataframe", "Detail Liturgi",
                            NRows(df_liturgi_enriched)) >>
    /\ steps' = Append(steps, "dashboard")
    /\ pc' = "right"
    /\ UNCHANGED <<world, renders, asks, frame, inputs, ask>>

\* Lines 255-258: nothing to analyse; the right column ends here.
RightEmpty ==
    /\ pc = "right"
    /\ NRows(df_liturgi_enriched) <= 0
    /\ ui' = Append(ui, Element("info", "no_data", <<>>))
    /\ steps' = Append(steps, "right_empty")
    /\ pc' = "done"
    /\ UNCHANGED <<world, renders, asks, frame, inputs, ask>>

\* Lines 260-300: the slider, the instruction and the button, with what the
\* user has set them to.
Widgets(limit, instruction, clicked) ==
    /\ pc = "right"
    /\ NRows(df_liturgi_enriched) > 0
    /\ clicked => asks < MaxAsks
    /\ LET b == SliderBounds(NRows(df_liturgi_enriched))
           d == DefaultVal(session_state["last_limit_rows"], b)
       IN  /\ limit \in SliderValues(b)
           /\ slider' = [min |-> b.min, max |-> b.max, step |-> b.step,
                         default |-> d]
    /\ limit_rows_for_ai' = limit
    /\ user_instruction' = instruction
    /\ ask_clicked' = clicked
    /\ asks' = IF clicked THEN asks + 1 ELSE asks
    /\ ui' = ui \o << Element("slider", "Jumlah baris", limit),
                      Element("text_area", "Pertanyaan / Instruksi ke AI",
                              instruction),
                      Element("button", "Ask AI", clicked) >>
    /\ steps' = Append(steps, "widgets")
    /\ pc' = IF clicked THEN "build" ELSE "display"
    /\ UNCHANGED <<world, renders, frame, ask>>

\* Lines 302-329: the CSV text, its excerpt, the warning, the prompt.
BuildPrompt ==
    /\ pc = "build"
    /\ LET text    == ToCsv(DfHead(df_liturgi_enriched, limit_rows_for_ai))
           excerpt == Truncate(text)
       IN  /\ csv_text' = text
           /\ csv_text_short' = excerpt
           /\ full_prompt' = ComposePrompt(limit_rows_for_ai, user_instruction,
                                           excerpt)
           /\ ui' = ui \o TruncationWarnings(text)
                       \o <<Element("info", "asking", <<>>)>>
    /\ steps' = Append(steps, "build")
    /\ pc' = "chat"
    /\ UNCHANGED <<world, renders, asks, frame, inputs, resp, answer>>

\* Lines 330-334: ask_chatgpt, then the session is updated; an exception of
\* ask_chatgpt leaves the script, which ends the run there.
AskChat(outcome) ==
    /\ pc = "chat"
    /\ resp' = outcome
    /\ LET r == ask_chatgpt(outcome)
       IN  IF r.raised = "none"
           THEN /\ answer' = r.value
                /\ session_state' =
                       [session_state EXCEPT
                          !["last_answer"] = r.value,
                          !["last_limit_rows"] = limit_rows_for_ai]
                /\ steps' = steps \o <<"chat", "answer">>
                /\ ui' = ui
                /\ pc' = "save"
           ELSE /\ steps' = steps \o <<"chat", "chat_raised">>
                /\ ui' = Append(ui, Element("exception", r.raised, <<>>))
                /\ pc' = "aborted"
                /\ UNCHANGED <<answer, session_state>>
    /\ UNCHANGED <<source, cache, history_table, renders, asks, frame, inputs,
                   csv_text, csv_text_short, full_prompt>>

\* Lines 337-345: save_history inserts its row.
SaveOk ==
    /\ pc = "save"
    /\ history_table' =
           Append(history_table,
                  HistoryRow(history_table, limit_rows_for_ai, user_instruction,
                             full_prompt, answer, "gpt-5.1"))
    /\ steps' = steps \o <<"insert", "inserted">>
    /\ ui' = Append(ui, Element("success", "history_saved", <<>>))
    /\ pc' = "display"
    /\ UNCHANGED <<source, cache, session_state, renders, asks, frame, inputs,
                   ask>>

\* SaveFail without the try/except: the exception of save_history leaves the
\* script, which ends the run before the answer is shown.
SaveFailUncaught ==
    /\ pc = "save"
    /\ steps' = steps \o <<"insert", "insert_failed">>
    /\ ui' = Append(ui, Element("exception", "save_history", <<>>))
    /\ pc' = "aborted"
    /\ UNCHANGED <<world, renders, asks, frame, inputs, ask>>

\* SaveFail that tries the insert again instead of going on.
SaveFailRetried ==
    /\ pc = "save"
    /\ steps' = steps \o <<"insert", "insert_failed">>
    /\ ui' = Append(ui, Element("error", "history_not_saved", <<>>))
    /\ pc' = "save"
    /\ UNCHANGED <<world, renders, asks, frame, inputs, ask>>

\* Lines 337-347: save_history raises (the warehouse cannot be reached); the
\* exception is caught and shown.
SaveFail ==
    /\ pc = "save"
    /\ steps' = steps \o <<"insert", "insert_failed">>
    /\ ui' = Append(ui, Element("error", "history_not_saved", <<>>))
    /\ pc' = "display"
    /\ UNCHANGED <<world, renders, asks, frame, inputs, ask>>

\* Lines 349-358: the last answer of the session, or that there is none.
Display ==
    /\ pc = "display"
    /\ ui' = Append(ui,
                    IF session_state["last_answer"] # <<>>
                    THEN Element("text_area", "Jawaban AI",
                                 session_state["last_answer"])
                    ELSE Element("info", "no_answer", <<>>))
    /\ steps' = Append(steps, "display")
    /\ pc' = "history"
    /\ UNCHANGED <<world, renders, asks, frame, inputs, ask>>

\* Lines 360-379: the history is read and shown.
HistoryOk ==
    /\ pc = "history"
    /\ LET df_history == load_history(history_table, history_limit)
       IN  ui' = Append(ui,
                        IF df_history # <<>>
                        THEN Element("dataframe", "Riwayat",
                                     HistoryDisplay(df_history))
                        ELSE Element("info", "no_history", <<>>))
    /\ steps' = steps \o <<"history", "history_read">>
    /\ pc' = "done"
    /\ UNCHANGED <<world, renders, asks, frame, inputs, ask>>

\* Lines 364-381: load_history raises; the exception is caught and shown.
HistoryFail ==
    /\ pc = "history"
    /\ ui' = Append(ui, Element("error", "history_not_read", <<>>))
    /\ steps' = steps \o <<"history", "history_failed">>
    /\ pc' = "done"
    /\ UNCHANGED <<world, renders, asks, frame, inputs, ask>>

Next ==
    \/ StartRender
    \/ LoadCached
    \/ LoadOk
    \/ LoadFail
    \/ EnrichFrame
    \/ Dashboard
    \/ RightEmpty
    \/ \E limit \in LimitInputs, instruction \in Instructions,
          clicked \in BOOLEAN : Widgets(limit, instruction, clicked)
    \/ BuildPrompt
    \/ \E outcome \in ApiOutcomes : AskChat(outcome)
    \/ SaveOk
    \/ SaveFail
    \/ Display
    \/ HistoryOk
    \/ HistoryFail

Spec == Init /\ [][Next]_vars

\* ------------------------------------------------------------- properties
\* The step x has been taken in the current run.
Took(x) == \E i \in 1..Len(steps) : steps[i] = x

\* How often the step x has been taken in the current run.
Times(x) == Cardinality({i \in 1..Len(steps) : steps[i] = x})

\* The position of the first step x of the current run, 0 when there is none.
First(x) ==
    IF Took(x) THEN CHOOSE i \in 1..Len(steps) :
                        steps[i] = x /\ \A j \in 1..(i - 1) : steps[j] # x
    ELSE 0

\* The elements of the page with a kind and a label.
Shown(kind, label) ==
    {i \in 1..Len(ui) : ui[i].kind = kind /\ ui[i].label = label}

\* a is b[:k] for some k: run by run, without any use of Take.
IsPrefixOf(a, b) ==
    \/ a = <<>>
    \/ /\ Len(a) <= Len(b)
       /\ \A i \in 1..(Len(a) - 1) : a[i] = b[i]
       /\ a[Len(a)].c = b[Len(a)].c
       /\ a[Len(a)].n <= b[Len(a)].n

\* The characters of runs lo..hi of a text, one by one (for short texts).
RECURSIVE Chars(_, _, _)
Chars(t, lo, hi) ==
    IF lo > hi THEN <<>>
    ELSE IF lo = hi THEN [i \in 1..t[lo].n |-> t[lo].c]
    ELSE LET mid == (lo + hi) \div 2
         IN  Chars(t, lo, mid) \o Chars(t, mid + 1, hi)

\* The decimal number that starts at position from of a tuple of characters.
NumberAt(chars, from) ==
    LET to == CHOOSE j \in from..Len(chars) :
                  /\ \A i \in from..j : IsDigit(chars[i])
                  /\ (j = Len(chars) \/ ~IsDigit(chars[j + 1]))
    IN  [value |-> Number(chars, from, to), next |-> to + 1]

\* The full CSV serialization of the rows an ask sends.
FullSerialization ==
    ToCsv(DfHead(df_liturgi_enriched, limit_rows_for_ai))

\* The text between the opening fence and the closing fence of the prompt.
EmbeddedExcerpt ==
    Slice(full_prompt,
          Length(PromptHead(limit_rows_for_ai)) - 1 + Length(user_instruction)
              + Length(PromptFence),
          Length(full_prompt) - (Length(PromptTail) - 1))

\* C1: in every ask, the excerpt embedded in the composed prompt is the prefix
\* of the full CSV serialization of length min(len(serialization), 80000): the
\* whole serialization when that fits, its first 80000 characters otherwise,
\* and never more than 80000 characters.  (The serialization is computed
\* again and the excerpt is cut out of the prompt where the prompt is handed
\* to the chat call; the run changes none of them afterwards.)
C1_ExcerptIsBudgetPrefix ==
    /\ pc = "chat" =>
           /\ csv_text = FullSerialization
           /\ EmbeddedExcerpt = csv_text_short
           /\ Slice(full_prompt, Length(full_prompt) - 4, Length(full_prompt))
                  = Take(PromptTail, 4)
    /\ Took("build") =>
           LET full == Length(csv_text)
               cut  == Length(csv_text_short)
           IN  /\ IsPrefixOf(csv_text_short, csv_text)
               /\ cut = Min(full, MAX_CSV_CHARS)
               /\ cut <= MAX_CSV_CHARS
               /\ (full <= MAX_CSV_CHARS => csv_text_short = csv_text)

\* An ask whose serialization is over the budget and was cut to 80000.
C1_Witness ==
    /\ Took("build")
    /\ Length(csv_text) > MAX_CSV_CHARS
    /\ Length(EmbeddedExcerpt) = MAX_CSV_CHARS
    /\ EmbeddedExcerpt # csv_text

\* C2: a chat response without the text field makes ask_chatgpt return an
\* answer (the placeholder): the ask does not end in an unhandled exception.
C2_MalformedResponseAnswered ==
    resp.kind = "malformed" => (pc # "aborted" /\ Took("answer"))

\* C3: an error raised by the chat API call is caught inside ask_chatgpt and
\* returned as the answer: the ask goes on and the answer is stored.
C3_TransportErrorAnswered ==
    resp.kind = "error" =>
        /\ ~Took("chat_raised")
        /\ Took("answer")
        /\ session_state["last_answer"] = answer

\* C4 as claimed: when the history insert of an ask fails, the answer is in
\* session_state["last_answer"], the run is not aborted, the insert is tried
\* once, the failure is shown as a notice, and the answer is displayed in the
\* same run.
C4_AnswerShownAfterSaveFailure ==
    Took("insert_failed") =>
        /\ session_state["last_answer"] = answer
        /\ pc # "aborted"
        /\ Times("insert") = 1
        /\ Shown("error", "history_not_saved") # {}
        /\ (pc \in {"history", "done"} =>
               \E i \in Shown("text_area", "Jawaban AI") : ui[i].value = answer)

\* C4 amended: as claimed, but the answer is displayed when it is not empty;
\* an empty answer shows the notice that there is no answer yet.
C4_AnswerKeptAfterSaveFailure ==
    Took("insert_failed") =>
        /\ session_state["last_answer"] = answer
        /\ pc # "aborted"
        /\ Times("insert") = 1
        /\ Shown("error", "history_not_saved") # {}
        /\ (pc \in {"history", "done"} =>
               IF answer # <<>>
               THEN /\ \E i \in Shown("text_area", "Jawaban AI") :
                           ui[i].value = answer
                    /\ Shown("info", "no_answer") = {}
               ELSE /\ Shown("text_area", "Jawaban AI") = {}
                    /\ Shown("info", "no_answer") # {})

\* A finished run whose insert failed and whose answer is on the page.
C4_Witness ==
    /\ Took("insert_failed")
    /\ pc = "done"
    /\ answer # <<>>
    /\ \E i \in Shown("text_area", "Jawaban AI") : ui[i].value = answer

\* The month bucket the claim gives a liturgy_date cell: the year and month of
\* the date when the cell parses, "Unknown" otherwise.
ClaimedMonth(cell) ==
    IF ToDatetime(cell).nat THEN Unknown ELSE Str(SubSeq(cell.s, 1, 7))

\* C5: every row's liturgy_month is the YYYY-MM of its parsed liturgy_date,
\* "Unknown" when the date is missing or does not parse, and "Unknown" for
\* every row when the table has no liturgy_date column.
C5_MonthIsYearMonthOrUnknown ==
    Took("enrich") =>
        \A i \in 1..NRows(df_liturgi_enriched) :
            df_liturgi_enriched.rows[i].liturgy_month =
                IF HasColumn(df_liturgi, "liturgy_date")
                THEN ClaimedMonth(df_liturgi.rows[i].liturgy_date)
                ELSE Unknown

\* The truncation warnings on the page.
Warnings == Shown("warning", "truncated")

\* C6: an ask raises a truncation warning iff the full serialization is longer
\* than 80000, and the warning reports the length of the untruncated
\* serialization as the original length and 80000 as the length sent.  (The
\* serialization is computed again where the prompt is handed to the chat
\* call.)
C6_WarningIffTruncated ==
    /\ pc = "chat" => csv_text = FullSerialization
    /\ Took("build") =>
           LET full == Length(csv_text)
           IN  /\ (Warnings # {}) <=> (full > MAX_CSV_CHARS)
               /\ Cardinality(Warnings) <= 1
               /\ \A i \in Warnings :
                      LET chars    == Chars(ui[i].value, 1, Len(ui[i].value))
                          original == NumberAt(chars, 16)
                          sent     == NumberAt(chars, original.next + 17)
                      IN  /\ original.value = full
                          /\ sent.value = MAX_CSV_CHARS
                          /\ sent.value = Length(csv_text_short)

\* An ask that raised the warning.
C6_Witness ==
    /\ Took("build")
    /\ Warnings # {}
    /\ Length(csv_text) > MAX_CSV_CHARS

\* C7: a failed load ends the run there: the load was tried once, nothing of
\* the dashboard or the assistant is on the page, and the run makes no chat
\* call, no history insert and no history read.
C7_LoadFailureEndsRun ==
    Took("load_failed") =>
        /\ pc = "aborted"
        /\ steps = <<"load", "load_failed">>
        /\ \A i \in 1..Len(ui) : ui[i].kind \in {"title", "exception"}
        /\ ~cache.loaded

\* A run that ended in a failed load.
C7_Witness == Took("load_failed") /\ pc = "aborted"

\* C8 as claimed: in every inserted row the user instruction and the answer
\* are at most 65000 characters long.
C8_InstructionAndAnswerTrimmed ==
    \A i \in 1..Len(history_table) :
        /\ Length(history_table[i].user_instruction) <= max_len
        /\ Length(history_table[i].answer) <= max_len

\* C8 amended: in every inserted row the prompt and the answer are at most
\* 65000 characters long, and the row an ask inserts holds the prefixes of
\* that length of the ask's prompt and answer, whatever was cut for the 80000
\* budget; the user instruction is stored as typed.
C8_PromptAndAnswerTrimmed ==
    /\ \A i \in 1..Len(history_table) :
           /\ Length(history_table[i].prompt_sent) <= max_len
           /\ Length(history_table[i].answer) <= max_len
    /\ Took("inserted") =>
           LET r == history_table[Len(history_table)]
           IN  /\ IsPrefixOf(r.prompt_sent, full_prompt)
               /\ Length(r.prompt_sent) = Min(Length(full_prompt), max_len)
               /\ IsPrefixOf(r.answer, answer)
               /\ Length(r.answer) = Min(Length(answer), max_len)
               /\ r.user_instruction = user_instruction
               /\ r.limit_rows = limit_rows_for_ai

\* A row whose prompt and answer were cut at 65000 and whose instruction is
\* longer than that.
C8_Witness ==
    /\ Took("inserted")
    /\ Length(full_prompt) > max_len
    /\ Length(answer) > max_len
    /\ LET r == history_table[Len(history_table)]
       IN  /\ Length(r.prompt_sent) = max_len
           /\ Length(r.answer) = max_len
           /\ Length(r.user_instruction) > max_len

\* The steps of an ask are taken at most once each and in their order.
AskStepsInOrder ==
    /\ \A x \in {"build", "chat", "answer", "chat_raised", "insert",
                 "inserted", "insert_failed", "display"} : Times(x) <= 1
    /\ Took("chat") => Took("build") /\ First("build") < First("chat")
    /\ Took("insert") => Took("answer") /\ First("chat") < First("answer")
                         /\ First("answer") < First("insert")
    /\ Took("inserted") => Took("insert")
    /\ (Took("display") /\ Took("build")) =>
           Took("insert") /\ First("insert") < First("display")
    /\ (pc = "done" /\ ask_clicked) =>
           /\ Times("build") = 1
           /\ Times("chat") = 1
           /\ Times("insert") = 1
           /\ Times("display") = 1
    /\ (pc = "aborted" /\ ask_clicked) => Times("chat") = 1 /\ ~Took("insert")

\* One step of the page changes the history table only by a successful
\* insert, which appends exactly one row, the row of the answer just given.
OneRowPerAnswer ==
    \/ history_table' = history_table
    \/ /\ pc = "save"
       /\ Took("answer")
       /\ ~Took("insert")
       /\ Len(history_table') = Len(history_table) + 1
       /\ SubSeq(history_table', 1, Len(history_table)) = history_table
       /\ history_table'[Len(history_table')].answer = Take(answer, max_len)

\* C9: within one ask the steps are build prompt, chat call, history insert,
\* display, in that order; the chat call is issued once, the insert is tried
\* at most once and only after the chat call returned an answer, a successful
\* insert adds exactly one row, and nothing is tried again after a failure.
C9_AskStepsOnceInOrder == []AskStepsInOrder /\ [][OneRowPerAnswer]_vars

\* A finished ask whose insert succeeded.
C9_Witness ==
    /\ pc = "done"
    /\ ask_clicked
    /\ Took("inserted")
    /\ Len(history_table) = 1

\* The number of rows of the loaded table.
n_rows == NRows(cache.df)

\* C10: a chat call is only issued for a table with at least one row; the
\* slider's default lies between its minimum and its maximum; the row limit
\* of an ask, and the value it stores in session_state["last_limit_rows"], lie
\* between 1 and min(500, n_rows); with an empty table no ask, no history
\* insert and no history read happens.
C10_LimitWithinBounds ==
    /\ Took("chat") => n_rows >= 1
    /\ Took("widgets") =>
           /\ slider.min <= slider.default
           /\ slider.default <= slider.max
           /\ slider.min <= limit_rows_for_ai
           /\ limit_rows_for_ai <= slider.max
    /\ Took("build") =>
           /\ 1 <= limit_rows_for_ai
           /\ limit_rows_for_ai <= Min(500, n_rows)
           /\ NRows(DfHead(df_liturgi_enriched, limit_rows_for_ai))
                  = limit_rows_for_ai
    /\ Took("answer") =>
           session_state["last_limit_rows"] = limit_rows_for_ai
    /\ (cache.loaded /\ "last_limit_rows" \in DOMAIN session_state) =>
           \/ session_state["last_limit_rows"] = 10
           \/ /\ 1 <= session_state["last_limit_rows"]
              /\ session_state["last_limit_rows"] <= Min(500, n_rows)
    /\ (cache.loaded /\ n_rows = 0) =>
           /\ \A x \in {"widgets", "build", "chat", "insert", "history"} :
                  ~Took(x)
           /\ history_table = <<>>

\* An answered ask over the 520-row table with the slider at its maximum, 500.
C10_Witness ==
    /\ Took("answer")
    /\ n_rows > 500
    /\ limit_rows_for_ai = 500
    /\ session_state["last_limit_rows"] = 500

====
